---- MODULE Spec2Model ----
(***************************************************************************)
(* Heat Flux Utilities (src/utils.py): forecast assembly, the flux model's *)
(* series alignment, the energy-balance table and the cooling rate.        *)
(*                                                                         *)
(* Representation.  A pandas timestamp is the number of hours since        *)
(* 0001-01-01 00:00 in the fetch's fixed-offset zone (every window of one  *)
(* call carries the same zone, so the order of local times is the order of *)
(* instants).  Text (a header, a table cell) is a sequence of one-character*)
(* strings.  A float is <<v>> for the number v and <<>> for NaN.           *)
(***************************************************************************)
EXTENDS Integers, Sequences, FiniteSets, TLC

\* ------------------------------------------------------------------ bounds
\* How many times the wall clock rolls over to the next hour during one run.
MaxTicks == 1

\* ----------------------------------------------------------------- calendar
IsLeap(y) == (y % 4 = 0 /\ y % 100 # 0) \/ y % 400 = 0

DaysIn(y, m) ==
    IF m = 2 THEN (IF IsLeap(y) THEN 29 ELSE 28)
    ELSE IF m \in {4, 6, 9, 11} THEN 30 ELSE 31

\* The wall clock one hour later (datetime.datetime.now advances).
AddHour(t) ==
    IF t.hour < 23 THEN [t EXCEPT !.hour = t.hour + 1]
    ELSE IF t.day < DaysIn(t.year, t.month)
         THEN [t EXCEPT !.hour = 0, !.day = t.day + 1]
    ELSE IF t.month < 12
         THEN [t EXCEPT !.hour = 0, !.day = 1, !.month = t.month + 1]
    ELSE [year |-> t.year + 1, month |-> 1, day |-> 1, hour |-> 0]

\* Days of the year before the first of month m.
DaysBeforeMonth(y, m) ==
    <<0, 31, 59, 90, 120, 151, 181, 212, 243, 273, 304, 334>>[m]
        + (IF m > 2 /\ IsLeap(y) THEN 1 ELSE 0)

DaysBeforeYear(y) ==
    365 * (y - 1) + ((y - 1) \div 4) - ((y - 1) \div 100) + ((y - 1) \div 400)

\* pd.to_datetime(df[['year','month','day']]) raises on a day the month lacks.
ValidDate(y, m, d) == m \in 1..12 /\ d \in 1..DaysIn(y, m)

\* pd.to_datetime(year, month, day) + pd.to_timedelta(hour, unit="h")
to_datetime(y, m, d, h) ==
    (DaysBeforeYear(y) + DaysBeforeMonth(y, m) + (d - 1)) * 24 + h

\* The calendar reading of an hour count.
FromOrdinal(o) ==
    LET days == o \div 24
        y == CHOOSE yy \in ((days \div 366) + 1)..((days \div 365) + 1) :
                 DaysBeforeYear(yy) <= days /\ days < DaysBeforeYear(yy + 1)
        doy == days - DaysBeforeYear(y)
        m == CHOOSE mm \in 1..12 :
                 DaysBeforeMonth(y, mm) <= doy /\ doy < DaysBeforeMonth(y, mm) + DaysIn(y, mm)
    IN  [year |-> y, month |-> m, day |-> doy - DaysBeforeMonth(y, m) + 1, hour |-> o % 24]

\* The wall clock n hours later.
AddHours(t, n) == FromOrdinal(to_datetime(t.year, t.month, t.day, t.hour) + n)

\* --------------------------------------------------------------------- text
DigitChars == <<"0", "1", "2", "3", "4", "5", "6", "7", "8", "9">>

IsDigit(c) == \E k \in 1..10 : DigitChars[k] = c

DigitVal(c) == (CHOOSE k \in 1..10 : DigitChars[k] = c) - 1

\* str(n) for n >= 0
RECURSIVE ToText(_)
ToText(n) ==
    IF n < 10 THEN <<DigitChars[n + 1]>>
    ELSE ToText(n \div 10) \o <<DigitChars[(n % 10) + 1]>>

\* int(s) for a text of digits
RECURSIVE ParseInt(_)
ParseInt(s) ==
    IF Len(s) = 1 THEN DigitVal(s[1])
    ELSE ParseInt(SubSeq(s, 1, Len(s) - 1)) * 10 + DigitVal(s[Len(s)])

IsNumberText(s) == Len(s) > 0 /\ \A k \in 1..Len(s) : IsDigit(s[k])

NaN == <<>>

Num(v) == <<v>>

\* pd.to_numeric(cell, errors='coerce')
to_numeric(cell) == IF IsNumberText(cell) THEN Num(ParseInt(cell)) ELSE NaN

\* s.strip('()')
RECURSIVE LStrip(_)
LStrip(s) ==
    IF Len(s) > 0 /\ s[1] \in {"(", ")"} THEN LStrip(Tail(s)) ELSE s

RECURSIVE RStrip(_)
RStrip(s) ==
    IF Len(s) > 0 /\ s[Len(s)] \in {"(", ")"}
    THEN RStrip(SubSeq(s, 1, Len(s) - 1)) ELSE s

Strip(s) == RStrip(LStrip(s))

\* hours_col[5:]
From5(s) == SubSeq(s, 6, Len(s))

\* "m/d".split("/") : the text before and after the first "/"
SlashAt(s) == CHOOSE k \in 1..Len(s) : s[k] = "/" /\ \A j \in 1..(k - 1) : s[j] # "/"

SplitMonth(s) == ParseInt(SubSeq(s, 1, SlashAt(s) - 1))

SplitDay(s) == ParseInt(SubSeq(s, SlashAt(s) + 1, Len(s)))

\* ---------------------------------------------------------------- time zones
AKST == <<"A", "K", "S", "T">>
AKDT == <<"A", "K", "D", "T">>
PST == <<"P", "S", "T">>
PDT == <<"P", "D", "T">>
MST == <<"M", "S", "T">>
MDT == <<"M", "D", "T">>
CST == <<"C", "S", "T">>
CDT == <<"C", "D", "T">>
EST == <<"E", "S", "T">>
EDT == <<"E", "D", "T">>
HST == <<"H", "S", "T">>
UTC == <<"U", "T", "C">>

KeyError == "KeyError"

tz_map ==
    { <<AKST, "Etc/GMT+9">>, <<AKDT, "Etc/GMT+8">>,
      <<PST, "Etc/GMT+8">>,  <<PDT, "Etc/GMT+7">>,
      <<MST, "Etc/GMT+7">>,  <<MDT, "Etc/GMT+6">>,
      <<CST, "Etc/GMT+6">>,  <<CDT, "Etc/GMT+5">>,
      <<EST, "Etc/GMT+5">>,  <<EDT, "Etc/GMT+4">> }

\* A lookup that falls back to a default zone instead of raising.
tz_to_gmt_offset_default(tz_string) ==
    IF \E p \in tz_map : p[1] = tz_string
    THEN (CHOOSE p \in tz_map : p[1] = tz_string)[2]
    ELSE "Etc/GMT+0"

\* tz_map[tz_string]: the zone, or KeyError raised
tz_to_gmt_offset(tz_string) ==
    IF \E p \in tz_map : p[1] = tz_string
    THEN (CHOOSE p \in tz_map : p[1] = tz_string)[2]
    ELSE KeyError

\* ------------------------------------------------------------ forecast page
\* Hours in one page of the digital forecast (two tables of 24 hourly columns).
WindowRows == 48

\* get_full_forecast: offset 0 first, then the loop over [48, 96, 107]
aheadhours == <<0, 48, 96, 107>>

Temperature == "Temperature (F)"
Dewpoint == "Dewpoint (F)"
SurfaceWind == "Surface Wind (mph)"
SkyCover == "Sky Cover (%)"
Humidity == "Relative Humidity (%)"

Columns == {Temperature, Dewpoint, SurfaceWind, SkyCover, Humidity}

\* The columns calc_fluxes casts with astype(int), in the order it casts them.
FluxColumns == <<SkyCover, Temperature, SurfaceWind, Dewpoint>>

HeaderOf(label) == <<"H", "o", "u", "r", " ", "(">> \o label \o <<")">>

KnownLabels == {AKST, AKDT, PST, PDT, MST, MDT, CST, CDT, EST, EDT}

\* Column headers the page may carry: the ten known zones, two unknown ones,
\* and a header with no zone at all.
Headers == {HeaderOf(l) : l \in KnownLabels \cup {HST, UTC}} \cup {<<"H", "o", "u", "r">>}

\* Wall-clock instants at which the run starts.
Starts ==
    { [year |-> 2024, month |-> 12, day |-> 31, hour |-> 23],
      [year |-> 2025, month |-> 1,  day |-> 31, hour |-> 23],
      [year |-> 2024, month |-> 12, day |-> 29, hour |-> 10],
      [year |-> 2024, month |-> 2,  day |-> 29, hour |-> 23] }

\* The one unparseable cell of the raw forecast, <<window, row, column>>, or
\* <<>> when every cell parses.
BadCells ==
    { <<>>, <<1, 1, Temperature>>, <<1, 1, Humidity>>,
      <<4, 1, Temperature>>, <<4, WindowRows, Temperature>> }

BadToken == <<"-", "-">>

\* The page for lead-time window w fetched when the wall clock reads `now`:
\* WindowRows consecutive hours from now + aheadhours[w].  The Date cell is
\* printed in the first column of each table and at midnight, blank elsewhere;
\* there is no year.  The value in window w, row k is w*100 + k in every column.
PageRow(t, k, w, bad) ==
    [ Date  |-> IF k = 1 \/ k = 25 \/ t.hour = 0
                THEN ToText(t.month) \o <<"/">> \o ToText(t.day)
                ELSE NaN,
      hour  |-> ToText(t.hour),
      cells |-> [c \in Columns |->
                    IF bad = <<w, k, c>> THEN BadToken ELSE ToText(w * 100 + k)] ]

ServerPage(now, w, bad) ==
    [k \in 1..WindowRows |-> PageRow(AddHours(now, aheadhours[w] + k - 1), k, w, bad)]

\* df.Date.fillna(method='ffill'): a blank Date takes the last one above it
ffill(rows) ==
    [k \in 1..Len(rows) |->
        LET above == {j \in 1..k : rows[j].Date # NaN}
        IN  IF above = {} THEN rows[k]
            ELSE [rows[k] EXCEPT !.Date = rows[CHOOSE j \in above : \A n \in above : n <= j].Date]]

\* lines 57-58: forward-fill Date, split it into month and day
SplitDates(page) ==
    LET filled == ffill(page)
    IN  [k \in 1..Len(filled) |->
            [ month |-> SplitMonth(filled[k].Date),
              day   |-> SplitDay(filled[k].Date),
              hour  |-> filled[k].hour,
              year  |-> 0,
              date  |-> 0,
              cells |-> filled[k].cells ]]

\* np.where(df['month'] > current_month, ...): the comparison made strict
YearOfStrict(month, current_month, current_year) ==
    IF month > current_month THEN current_year ELSE current_year + 1

\* line 62: np.where(df['month'] >= current_month, current_year, current_year + 1)
YearOf(month, current_month, current_year) ==
    IF month >= current_month THEN current_year ELSE current_year + 1

\* lines 62-63 for every row
WithDates(rows, current_month, current_year) ==
    [k \in 1..Len(rows) |->
        LET y == YearOf(rows[k].month, current_month, current_year)
        IN  [rows[k] EXCEPT
                !.year = y,
                !.date = to_datetime(y, rows[k].month, rows[k].day, ParseInt(rows[k].hour))]]

\* line 64: set_index('date').drop(['Date','hour','month','day','year'])
Indexed(rows) == [k \in 1..Len(rows) |-> [date |-> rows[k].date, cells |-> rows[k].cells]]

\* rows with the position of each
Numbered(rows) == [k \in 1..Len(rows) |-> [pos |-> k, row |-> rows[k]]]

Rows(numbered) == [k \in 1..Len(numbered) |-> numbered[k].row]

\* df[~df.index.duplicated(keep='last')]
DropDuplicatesLast(rows) ==
    LET NotDuplicated(e) ==
            \A j \in (e.pos + 1)..Len(rows) : rows[j].date # e.row.date
    IN  Rows(SelectSeq(Numbered(rows), NotDuplicated))

\* line 77: df[~df.index.duplicated(keep='first')]
DropDuplicates(rows) ==
    LET NotDuplicated(e) ==
            \A j \in 1..(e.pos - 1) : rows[j].date # e.row.date
    IN  Rows(SelectSeq(Numbered(rows), NotDuplicated))

\* line 78: df.apply(pd.to_numeric, errors='coerce')
Coerced(rows) ==
    [k \in 1..Len(rows) |->
        [date |-> rows[k].date, cells |-> [c \in Columns |-> to_numeric(rows[k].cells[c])]]]

\* ------------------------------------------------------------------- state
VARIABLES
    clock,          \* the wall clock in the fetch's zone (year, month, day, hour)
    ticks,          \* hour roll-overs so far
    pc,             \* position of the caller in get_full_forecast / calc_fluxes
    hours_col,      \* df.columns[1] of the location's page
    badCell,        \* the raw forecast's unparseable cell, if any
    i,              \* index into aheadhours of the window being fetched
    timezone,       \* get_48h_hourly_forecast: timezone
    gmt_tz,         \* get_48h_hourly_forecast: gmt_tz
    current_year,   \* get_48h_hourly_forecast: current_year
    current_month,  \* get_48h_hourly_forecast: current_month
    df48,           \* get_48h_hourly_forecast: df
    df,             \* get_full_forecast: df
    fetched,        \* the windows get_48h_hourly_forecast has returned, in order
    failedWin,      \* the window whose page could not be read, 0 if none
    err,            \* the exception that reached the caller, "" if none
    forecast,       \* what get_full_forecast returned, <<>> before
    fluxes,         \* what calc_fluxes returned, <<>> before
    fpc,            \* position of a caller of the flux model's pure functions
    comp,           \* the component series q_sw, q_atm, q_b, q_l, q_h given to them
    net,            \* q_net as line 182 computes it
    energy_df,      \* what build_energy_df returned
    cool,           \* the arguments of calc_cooling_rate: q_net and two depths
    rates           \* calc_cooling_rate at the two depths

xvars == <<fpc, comp, net, energy_df, cool, rates>>

fvars == <<clock, ticks, pc, hours_col, badCell, i, timezone, gmt_tz, current_year,
           current_month, df48, df, fetched, failedWin, err, forecast, fluxes>>

\* ------------------------------------------------- get_48h_hourly_forecast
\* The hour rolls over.  Only a later read of the clock can observe it, so it
\* is taken at the positions that precede one.
Tick ==
    /\ ticks < MaxTicks
    /\ pc \in {"fetch", "year", "month"}
    /\ clock' = AddHour(clock)
    /\ ticks' = ticks + 1
    /\ UNCHANGED <<pc, hours_col, badCell, i, timezone, gmt_tz, current_year,
                   current_month, df48, df, fetched, failedWin, err, forecast, fluxes, xvars>>

\* A caller that catches the failed fetch and goes on to the next window.
ReadHtmlSwallowed ==
    /\ pc = "fetch"
    /\ failedWin' = i
    /\ IF i < Len(aheadhours)
       THEN i' = i + 1 /\ pc' = "fetch"
       ELSE i' = i /\ pc' = "dedup"
    /\ UNCHANGED <<clock, ticks, hours_col, badCell, timezone, gmt_tz, current_year,
                   current_month, df48, df, fetched, err, forecast, fluxes, xvars>>

\* line 39: pd.read_html raises; nothing in get_48h_hourly_forecast or
\* get_full_forecast catches it.
ReadHtmlFails ==
    /\ pc = "fetch"
    /\ failedWin' = i
    /\ err' = "URLError"
    /\ pc' = "error"
    /\ UNCHANGED <<clock, ticks, hours_col, badCell, i, timezone, gmt_tz, current_year,
                   current_month, df48, df, fetched, forecast, fluxes, xvars>>

\* lines 39-58: the page is read and reshaped, the zone is looked up
\* (KeyError on an unknown label), Date is forward-filled and split.
ReadPage ==
    /\ pc = "fetch"
    /\ LET tzs == Strip(From5(hours_col))
           z   == tz_to_gmt_offset(tzs)
       IN  /\ timezone' = tzs
           /\ IF z = KeyError
              THEN /\ pc' = "error"
                   /\ err' = KeyError
                   /\ UNCHANGED <<gmt_tz, df48>>
              ELSE /\ gmt_tz' = z
                   /\ df48' = SplitDates(ServerPage(clock, i, badCell))
                   /\ pc' = "year"
                   /\ err' = err
    /\ UNCHANGED <<clock, ticks, hours_col, badCell, i, current_year, current_month,
                   df, fetched, failedWin, forecast, fluxes, xvars>>

\* line 60: current_year = datetime.datetime.now(tz=pytz_gmt_tz).year
ReadYear ==
    /\ pc = "year"
    /\ current_year' = clock.year
    /\ pc' = "month"
    /\ UNCHANGED <<clock, ticks, hours_col, badCell, i, timezone, gmt_tz, current_month,
                   df48, df, fetched, failedWin, err, forecast, fluxes, xvars>>

\* line 61: current_month = datetime.datetime.now(tz=pytz_gmt_tz).month
ReadMonth ==
    /\ pc = "month"
    /\ current_month' = clock.month
    /\ pc' = "assign"
    /\ UNCHANGED <<clock, ticks, hours_col, badCell, i, timezone, gmt_tz, current_year,
                   df48, df, fetched, failedWin, err, forecast, fluxes, xvars>>

\* lines 62-63: the year of every row, then its timestamp
AssignDates ==
    /\ pc = "assign"
    /\ IF \A k \in 1..Len(df48) :
            ValidDate(YearOf(df48[k].month, current_month, current_year),
                      df48[k].month, df48[k].day)
       THEN /\ df48' = WithDates(df48, current_month, current_year)
            /\ pc' = "return"
            /\ err' = err
       ELSE /\ pc' = "error"
            /\ err' = "ValueError"
            /\ df48' = df48
    /\ UNCHANGED <<clock, ticks, hours_col, badCell, i, timezone, gmt_tz, current_year,
                   current_month, df, fetched, failedWin, forecast, fluxes, xvars>>

\* ------------------------------------------------------- get_full_forecast
\* lines 64-67 and 73-76: the window is indexed, localized and returned; the
\* caller appends it to df and goes on to the next offset.
ReturnWindow ==
    /\ pc = "return"
    /\ fetched' = Append(fetched, [ahead |-> aheadhours[i], tz |-> gmt_tz,
                                   rows |-> Indexed(df48)])
    /\ df' = df \o Indexed(df48)
    /\ df48' = <<>>
    /\ IF i < Len(aheadhours)
       THEN i' = i + 1 /\ pc' = "fetch"
       ELSE i' = i /\ pc' = "dedup"
    /\ UNCHANGED <<clock, ticks, hours_col, badCell, timezone, gmt_tz, current_year,
                   current_month, failedWin, err, forecast, fluxes, xvars>>

\* lines 77-79: duplicates dropped, cells coerced, the series returned
Deduplicate ==
    /\ pc = "dedup"
    /\ forecast' = Coerced(DropDuplicates(df))
    /\ df' = <<>>
    /\ pc' = "ff_done"
    /\ UNCHANGED <<clock, ticks, hours_col, badCell, i, timezone, gmt_tz, current_year,
                   current_month, df48, fetched, failedWin, err, fluxes, xvars>>

\* ------------------------------------------------------------- calc_fluxes
\* In calc_fluxes a series is followed by its index and by where it holds a
\* finite number: [scalar, idx, fin].  Arithmetic between two pandas series
\* aligns them on the union of their indices and is NaN wherever either side
\* has no number; a scalar is broadcast.
Scalar == [scalar |-> TRUE, idx |-> {}, fin |-> {}]

Series(index, finite) == [scalar |-> FALSE, idx |-> index, fin |-> finite]

Arith(a, b) ==
    IF a.scalar THEN b
    ELSE IF b.scalar THEN a
    ELSE Series(a.idx \cup b.idx, a.fin \cap b.fin)

IndexOf(rows) == {rows[k].date : k \in 1..Len(rows)}

Min(S) == CHOOSE x \in S : \A y \in S : x <= y

Max(S) == CHOOSE x \in S : \A y \in S : x >= y

\* line 143: pd.date_range(start=df.index.min(), end=df.index.max(), freq='1H')
date_range(rows) == Min(IndexOf(rows))..Max(IndexOf(rows))

\* df[col]: the column as a series
Column(rows, c) ==
    Series(IndexOf(rows), {rows[k].date : k \in {j \in 1..Len(rows) : rows[j].cells[c] # NaN}})

\* df[col].astype(int) raises when the column holds a NaN
CastFails(rows, c) == \E k \in 1..Len(rows) : rows[k].cells[c] = NaN

\* line 92
calc_solar(q0_a_t, R, Cl) == Arith(q0_a_t, Cl)

\* lines 97-103
calc_downwelling_LW(T_air, Cl) == Arith(T_air, Cl)

\* lines 107-111
calc_upwelling_LW(T_water) == T_water

\* line 115
calc_wind_function(U) == U

\* line 119
calc_vapor_pressure(T_dewpoint) == T_dewpoint

\* lines 123-131
calc_latent_heat(T_water, ea, f_U) == Arith(Arith(T_water, ea), f_U)

\* lines 135-138
calc_sensible_heat(T_air, f_U, T_water) == Arith(Arith(T_air, T_water), f_U)

\* lines 143-184 once the elevation is known and every cast succeeded
FluxesOf(rows, T_water_C) ==
    LET times == date_range(rows)
        ghi   == Series(times, times)
        Cl    == Column(rows, SkyCover)
        q_sw  == calc_solar(ghi, Scalar, Cl)
        T_air_C == Column(rows, Temperature)
        q_atm == calc_downwelling_LW(T_air_C, Cl)
        q_b   == calc_upwelling_LW(T_water_C)
        f_U   == calc_wind_function(Column(rows, SurfaceWind))
        ea    == calc_vapor_pressure(Column(rows, Dewpoint))
        q_l   == calc_latent_heat(T_water_C, ea, f_U)
        q_h   == calc_sensible_heat(T_air_C, f_U, T_water_C)
        q_net == Arith(Arith(Arith(Arith(q_sw, q_atm), q_b), q_h), q_l)
    IN  [times |-> times, q_sw |-> q_sw, q_atm |-> q_atm, q_b |-> q_b,
         q_l |-> q_l, q_h |-> q_h, q_net |-> q_net]

\* calc_fluxes(df, T_water_C, lat, lon) on the series get_full_forecast
\* returned, with a scalar water temperature.  get_elevation (line 145) may
\* fail; the first cast of a column holding NaN raises (lines 153-173).
CalcFluxes ==
    /\ pc = "ff_done"
    /\ \E elevation_ok \in BOOLEAN :
          IF ~elevation_ok
          THEN pc' = "error" /\ err' = "LookupFailure" /\ fluxes' = fluxes
          ELSE IF \E n \in 1..Len(FluxColumns) : CastFails(forecast, FluxColumns[n])
          THEN pc' = "error" /\ err' = "IntCastingNaNError" /\ fluxes' = fluxes
          ELSE pc' = "done" /\ err' = err /\ fluxes' = FluxesOf(forecast, Scalar)
    /\ UNCHANGED <<clock, ticks, hours_col, badCell, i, timezone, gmt_tz, current_year,
                   current_month, df48, df, fetched, failedWin, forecast, xvars>>

\* --------------------------------------------- net flux and energy balance
\* Here a series carries its values: [scalar |-> FALSE, at |-> index -> float],
\* and a scalar is [scalar |-> TRUE, val |-> number].
\* How many timestamps a component series may span, and how large a value.
MaxT == 2

MaxVal == 1

Times == 1..MaxT

Floats == {NaN} \cup {Num(v) : v \in 1..MaxVal}

SeriesOver(S) == {[scalar |-> FALSE, at |-> f] : f \in [S -> Floats]}

AllSeries == UNION {SeriesOver(S) : S \in SUBSET Times}

AllScalars == {[scalar |-> TRUE, val |-> v] : v \in 1..MaxVal}

Idx(a) == IF a.scalar THEN {} ELSE DOMAIN a.at

\* The value a series contributes at t once aligned to an index holding t.
At(a, t) ==
    IF a.scalar THEN Num(a.val)
    ELSE IF t \in DOMAIN a.at THEN a.at[t] ELSE NaN

FAdd(x, y) == IF x = NaN \/ y = NaN THEN NaN ELSE Num(x[1] + y[1])

FNeg(x) == IF x = NaN THEN NaN ELSE Num(0 - x[1])

\* a + b on pandas series / scalars
Add(a, b) ==
    IF a.scalar /\ b.scalar THEN [scalar |-> TRUE, val |-> a.val + b.val]
    ELSE [scalar |-> FALSE,
          at |-> [t \in Idx(a) \cup Idx(b) |-> FAdd(At(a, t), At(b, t))]]

\* -a
Neg(a) ==
    IF a.scalar THEN [scalar |-> TRUE, val |-> 0 - a.val]
    ELSE [scalar |-> FALSE, at |-> [t \in DOMAIN a.at |-> FNeg(a.at[t])]]

\* a - b
Sub(a, b) == Add(a, Neg(b))

\* line 182: q_net = q_sw + q_atm - q_b + q_h - q_l
net_flux(c) == Sub(Add(Sub(Add(c.q_sw, c.q_atm), c.q_b), c.q_h), c.q_l)

\* energy_df.sum(axis=1): the sum of the numbers of a row, NaN skipped
Skipped(x) == IF x = NaN THEN 0 ELSE x[1]

RowSum(row) ==
    Skipped(row[1]) + Skipped(row[2]) + Skipped(row[3]) + Skipped(row[4]) + Skipped(row[5])

\* lines 194-205: the frame over the union of the series' indices, a scalar
\* broadcast to every row, then the 'net flux' column
build_energy_df(c) ==
    LET index == Idx(c.q_sw) \cup Idx(c.q_atm) \cup Idx(c.q_b) \cup Idx(c.q_h) \cup Idx(c.q_l)
        Row(t) == << At(c.q_sw, t), At(c.q_atm, t), At(Neg(c.q_b), t),
                     At(c.q_h, t), At(Neg(c.q_l), t) >>
    IN  [t \in index |->
            [ downwelling_SW |-> Row(t)[1],
              downwelling_LW |-> Row(t)[2],
              upwelling_LW   |-> Row(t)[3],
              sensible_heat  |-> Row(t)[4],
              latent_heat    |-> Row(t)[5],
              net_flux       |-> Num(RowSum(Row(t))) ]]

NetFlux ==
    /\ fpc = "start"
    /\ net' = net_flux(comp)
    /\ fpc' = "net"
    /\ UNCHANGED <<fvars, comp, energy_df, cool, rates>>

BuildEnergy ==
    /\ fpc = "net"
    /\ energy_df' = build_energy_df(comp)
    /\ fpc' = "built"
    /\ UNCHANGED <<fvars, comp, net, cool, rates>>

\* ------------------------------------------------------- calc_cooling_rate
\* Largest |q_net| and largest depth tried.
MaxQ == 3

MaxDepth == 4

pw == 1000

cpw == 4182

RECURSIVE GCD(_, _)
GCD(a, b) == IF b = 0 THEN a ELSE GCD(b, a % b)

Abs(n) == IF n < 0 THEN 0 - n ELSE n

\* The real number n/d (d > 0) in lowest terms.
Frac(n, d) ==
    LET g == GCD(Abs(n), d)
    IN  [n |-> n \div g, d |-> d \div g]

\* The rate taken proportional to the depth instead of inverse to it.
calc_cooling_rate_times_depth(q_net, D) ==
    Frac(q_net * D * 60, pw * cpw)

\* lines 187-191: q_net / (pw * cpw * D) * 60, in exact arithmetic
calc_cooling_rate(q_net, D) ==
    LET per_second == Frac(q_net, pw * cpw * D)
    IN  Frac(per_second.n * 60, per_second.d)

CoolingRates ==
    /\ fpc = "cool"
    /\ rates' = <<calc_cooling_rate(cool.q_net, cool.D1), calc_cooling_rate(cool.q_net, cool.D2)>>
    /\ fpc' = "cooled"
    /\ UNCHANGED <<fvars, comp, net, energy_df, cool>>

\* ------------------------------------------------------------ specification
vars == <<fvars, xvars>>

PipelineIdle ==
    /\ clock = [year |-> 2025, month |-> 1, day |-> 1, hour |-> 0]
    /\ hours_col = HeaderOf(EST)
    /\ badCell = <<>>
    /\ ticks = 0
    /\ pc = "idle"
    /\ i = 1
    /\ timezone = <<>>
    /\ gmt_tz = ""
    /\ current_year = 0
    /\ current_month = 0
    /\ df48 = <<>>
    /\ df = <<>>
    /\ fetched = <<>>
    /\ failedWin = 0
    /\ err = ""
    /\ forecast = <<>>
    /\ fluxes = <<>>

\* The forecast pipeline: get_full_forecast, then calc_fluxes on its result.
\* The header only decides the zone lookup, so the start instants and the
\* unparseable cells are varied under one known header, and the headers under
\* one start with a clean forecast.
Init ==
    /\ clock \in Starts
    /\ hours_col \in Headers
    /\ badCell \in BadCells
    /\ \/ hours_col = HeaderOf(EST)
       \/ badCell = <<>> /\ clock.month = 12 /\ clock.day = 31
    /\ ticks = 0
    /\ pc = "fetch"
    /\ i = 1
    /\ timezone = <<>>
    /\ gmt_tz = ""
    /\ current_year = 0
    /\ current_month = 0
    /\ df48 = <<>>
    /\ df = <<>>
    /\ fetched = <<>>
    /\ failedWin = 0
    /\ err = ""
    /\ forecast = <<>>
    /\ fluxes = <<>>
    /\ fpc = "idle"
    /\ comp = <<>>
    /\ net = <<>>
    /\ energy_df = <<>>
    /\ cool = <<>>
    /\ rates = <<>>

Next ==
    \/ Tick
    \/ ReadHtmlFails
    \/ ReadPage
    \/ ReadYear
    \/ ReadMonth
    \/ AssignDates
    \/ ReturnWindow
    \/ Deduplicate
    \/ CalcFluxes

Spec == Init /\ [][Next]_vars

\* The net flux and the energy-balance table of arbitrary component series.
InitEnergy ==
    /\ PipelineIdle
    /\ fpc = "start"
    /\ comp \in [q_sw : AllSeries, q_atm : AllSeries, q_b : AllSeries \cup AllScalars,
                  q_l : AllSeries, q_h : AllSeries]
    /\ net = <<>>
    /\ energy_df = <<>>
    /\ cool = <<>>
    /\ rates = <<>>

NextEnergy ==
    \/ NetFlux
    \/ BuildEnergy

SpecEnergy == InitEnergy /\ [][NextEnergy]_vars

\* The cooling rate of one net flux at two depths.
InitCooling ==
    /\ PipelineIdle
    /\ fpc = "cool"
    /\ cool \in [q_net : (0 - MaxQ)..MaxQ, D1 : 1..MaxDepth, D2 : 1..MaxDepth]
    /\ rates = <<>>
    /\ comp = <<>>
    /\ net = <<>>
    /\ energy_df = <<>>

NextCooling == CoolingRates

SpecCooling == InitCooling /\ [][NextCooling]_vars

\* ------------------------------------------------------------------ claims
RowsAt(w, ts) == {k \in 1..Len(fetched[w].rows) : fetched[w].rows[k].date = ts}

HasTimestamp(w, ts) == RowsAt(w, ts) # {}

\* The row of the earliest-fetched window that holds timestamp ts.
EarliestRow(ts) ==
    LET holders == {v \in 1..Len(fetched) : HasTimestamp(v, ts)}
        w == Min(holders)
    IN  fetched[w].rows[Min(RowsAt(w, ts))]

\* C1: the series get_full_forecast returns merges the windows fetched for
\* the offsets 0, 48, 96, 107 in that order; every timestamp of any window
\* occurs in it exactly once, with the values (coerced to numbers) of the
\* earliest-fetched window that holds the timestamp.
C1_MergeKeepsEarliestWindow ==
    pc = "ff_done" =>
        \A index \in {IndexOf(forecast)} :
            /\ Len(fetched) = 4
            /\ \A w \in 1..4 : fetched[w].ahead = <<0, 48, 96, 107>>[w]
            /\ \A w \in 1..4 : \A k \in 1..Len(fetched[w].rows) :
                  fetched[w].rows[k].date \in index
            /\ Cardinality(index) = Len(forecast)
            /\ \A j \in 1..Len(forecast) :
                  /\ \E w \in 1..4 : HasTimestamp(w, forecast[j].date)
                  /\ forecast[j].cells =
                        [c \in Columns |-> to_numeric(EarliestRow(forecast[j].date).cells[c])]

\* C1 witness: a timestamp held by the windows of offsets 96 and 107 with
\* different values, and the returned series holds the value of offset 96.
C1_Witness ==
    /\ pc = "ff_done"
    /\ \E j \in 1..Len(forecast) :
         \E k3 \in 1..Len(fetched[3].rows) : \E k4 \in 1..Len(fetched[4].rows) :
            /\ fetched[3].rows[k3].date = forecast[j].date
            /\ fetched[4].rows[k4].date = forecast[j].date
            /\ fetched[3].rows[k3].cells[Temperature] # fetched[4].rows[k4].cells[Temperature]
            /\ forecast[j].cells[Temperature] = to_numeric(fetched[3].rows[k3].cells[Temperature])

\* C2: the series get_full_forecast returns has strictly increasing
\* timestamps in row order (so none appears twice).
C2_StrictlyIncreasing ==
    forecast # <<>> =>
        \A j \in 1..(Len(forecast) - 1) : forecast[j].date < forecast[j + 1].date

\* C3: once get_48h_hourly_forecast has assigned the years, a row whose
\* month is at least the current month read at fetch time has the current
\* year read at fetch time, and any other row has that year plus one.
C3_YearInference ==
    pc = "return" =>
        \A k \in 1..Len(df48) :
            /\ df48[k].month >= current_month => df48[k].year = current_year
            /\ df48[k].month < current_month => df48[k].year = current_year + 1

\* C3 witness: with current month 12, a month-1 row got current_year + 1 and
\* a month-12 row got current_year.
C3_Witness ==
    /\ pc = "return"
    /\ current_month = 12
    /\ \E k \in 1..Len(df48) : df48[k].month = 1 /\ df48[k].year = current_year + 1
    /\ \E k \in 1..Len(df48) : df48[k].month = 12 /\ df48[k].year = current_year

Aligned == fluxes.times = IndexOf(forecast)

\* C5: calc_fluxes returns flux series only when the solar timestamps (the
\* hourly range over the forecast) are exactly the forecast's timestamps;
\* otherwise it fails.
C5_MisalignedSeriesFail ==
    pc = "done" => Aligned

\* C6: a raw forecast whose only defect is one unparseable cell goes through
\* get_full_forecast and calc_fluxes without raising: the run can only fail
\* for a reason other than the cell.
C6_BadCellTolerated ==
    (badCell # <<>> /\ pc = "error") =>
        err \in {"URLError", "LookupFailure", "KeyError", "ValueError"}

StandardOf == {<<AKDT, AKST>>, <<PDT, PST>>, <<MDT, MST>>, <<CDT, CST>>, <<EDT, EST>>}

FixedZones == {"Etc/GMT+4", "Etc/GMT+5", "Etc/GMT+6", "Etc/GMT+7", "Etc/GMT+8", "Etc/GMT+9"}

\* C7: the zone lookup yields a fixed-offset zone for exactly the ten known
\* abbreviations, 'PST' -> 'Etc/GMT+8', 'PDT' -> 'Etc/GMT+7', a daylight
\* abbreviation never the zone of its standard counterpart; for any other
\* label it raises, no default zone is used and get_48h_hourly_forecast
\* returns no table.
C7_TimezoneMapping ==
    /\ gmt_tz # "" =>
          /\ timezone \in KnownLabels
          /\ gmt_tz \in FixedZones
          /\ timezone = PST => gmt_tz = "Etc/GMT+8"
          /\ timezone = PDT => gmt_tz = "Etc/GMT+7"
          /\ \A p \in StandardOf :
                timezone = p[1] => gmt_tz # tz_to_gmt_offset(p[2])
    /\ (timezone \in KnownLabels) => (gmt_tz # "" /\ err # "KeyError")
    /\ (timezone \notin KnownLabels) =>
          /\ gmt_tz = ""
          /\ df48 = <<>> /\ fetched = <<>> /\ forecast = <<>>
          /\ pc \in {"fetch", "error"}
          /\ pc = "error" => err \in {"KeyError", "URLError"}

\* C7 witness: the header's label is unknown, the lookup raised and no
\* table came back.
C7_Witness ==
    /\ timezone = HST
    /\ pc = "error" /\ err = "KeyError"
    /\ fetched = <<>>

\* C8: when the fetch of a lead-time window fails, get_full_forecast ends in
\* that error: it returns no series, nothing is computed from it, and only
\* the windows before the failed one were merged.
C8_FailedFetchPropagates ==
    failedWin # 0 =>
        /\ pc = "error" /\ err = "URLError"
        /\ forecast = <<>> /\ fluxes = <<>>
        /\ Len(fetched) = failedWin - 1

\* C8 witness: the third window's fetch failed after two windows were merged.
C8_Witness ==
    /\ failedWin = 3
    /\ pc = "error"
    /\ Len(fetched) = 2

\* C10: the rows of one window, consecutive hours from the fetch time on,
\* get strictly increasing timestamps one hour apart, also when the window
\* spans 31 December / 1 January or the clock crosses a month or year
\* boundary during the fetch.
C10_ConsecutiveHours ==
    pc = "return" =>
        \A k \in 1..(Len(df48) - 1) : df48[k + 1].date = df48[k].date + 1

\* C4: the 'net flux' column of build_energy_df equals q_net of line 182 at
\* every timestamp, for any component series.
C4_NetFluxColumnIsNet ==
    fpc = "built" =>
        /\ ~net.scalar
        /\ DOMAIN energy_df = DOMAIN net.at
        /\ \A t \in DOMAIN energy_df : energy_df[t].net_flux = net.at[t]

\* |a| > |b| for fractions
AbsGreater(a, b) == Abs(a.n) * b.d > Abs(b.n) * a.d

\* C9: the cooling rate of a zero net flux is zero at any depth, and for the
\* same nonzero net flux the rate at the smaller of two depths has the
\* strictly larger magnitude.
C9_CoolingRate ==
    fpc = "cooled" =>
        /\ cool.q_net = 0 => (rates[1].n = 0 /\ rates[2].n = 0)
        /\ (cool.q_net # 0 /\ cool.D1 < cool.D2) => AbsGreater(rates[1], rates[2])
        /\ rates[1].n * (pw * cpw * cool.D1) = cool.q_net * 60 * rates[1].d

\* C9 witness: a nonzero net flux at two depths, the first shallower.
C9_Witness ==
    /\ fpc = "cooled"
    /\ cool.q_net # 0
    /\ cool.D1 < cool.D2
    /\ rates[1].n # 0

====
